---- MODULE Spec2Model ----
(***************************************************************************)
(* A model of the ips crate: the payload views (payload.rs), the Ethernet  *)
(* header family (link/ethernet/mod.rs) and the VLAN extension parser      *)
(* (link/ethernet/vlan.rs).                                                *)
(*                                                                         *)
(* A byte slice is a sequence of naturals below 256.  A function that can  *)
(* panic or fail returns a record whose status field is "ok", "err",       *)
(* "none" or "panic".                                                      *)
(***************************************************************************)
EXTENDS Integers, Sequences, FiniteSets

VARIABLES buffer, pc, hdr, last

vars == <<buffer, pc, hdr, last>>

(***************************************************************************)
(* Bounds of the explored inputs.                                          *)
(***************************************************************************)
\* longest run of bytes that follows the 14 header bytes of an input frame
MaxTail == 47
\* largest number of 2-byte chunks of an input VLAN region
MaxChunks == 6

(***************************************************************************)
(* Program constants.                                                      *)
(***************************************************************************)
HeaderLen == 14
MIN_PAYLOAD_LEN == 46
IPV4 == 32768
DOT1Q == 33024
QINQ == 34984

(***************************************************************************)
(* Slices.                                                                 *)
(***************************************************************************)
\* s[a..b] of Rust, a and b being 0-based offsets with a <= b <= len
Slice(s, a, b) == SubSeq(s, a + 1, b)

\* u16::from_be_bytes
from_be_bytes(two) == (two[1] * 256) + two[2]

\* the ethertype 08 00 of the input frames
Ipv4Wire == from_be_bytes(<<8, 0>>)

\* the two big-endian bytes of a 16-bit value
BeBytes(v) == <<v \div 256, v % 256>>

\* what get_unchecked yields for an offset outside the slice: the program
\* does not determine that byte, and OutOfSlice is no byte
OutOfSlice == 255 + 1

\* slice::get_unchecked(a..b): no bounds test
get_unchecked(s, a, b) ==
    [i \in 1..(b - a) |-> IF a + i <= Len(s) THEN s[a + i] ELSE OutOfSlice]

\* the record of one get_unchecked(lo..hi) on a slice of len bytes
Read(s, a, b) == [lo |-> a, hi |-> b, len |-> Len(s)]

\* the unchecked reads a call has made
ReadsOf(r) == IF "reads" \in DOMAIN r THEN r.reads ELSE {}

(***************************************************************************)
(* payload.rs: Unknown                                                     *)
(***************************************************************************)
\* Unknown::consume_unchecked: self.0.get_unchecked(..amnt)
consume_unchecked(self, amnt) == get_unchecked(self, 0, amnt)

\* the reads of Unknown::consume_unchecked
consume_unchecked_reads(self, amnt) == {Read(self, 0, amnt)}

\* Unknown::consume
consume(self, amnt) ==
    IF amnt > Len(self)
    THEN [status |-> "panic", reads |-> {}]
    ELSE [status |-> "ok", payload |-> consume_unchecked(self, amnt),
          reads |-> consume_unchecked_reads(self, amnt)]

\* as_padded_any_unchecked with the range ..length written twice
as_padded_any_unchecked_Mut(self, length) ==
    [payload |-> Slice(self, 0, length), padding |-> Slice(self, 0, length)]

\* Unknown::as_padded_any_unchecked
as_padded_any_unchecked(self, length) ==
    [payload |-> get_unchecked(self, 0, length),
     padding |-> get_unchecked(self, length, Len(self))]

\* the reads of Unknown::as_padded_any_unchecked
as_padded_any_unchecked_reads(self, length) ==
    {Read(self, 0, length), Read(self, length, Len(self))}

\* the bounds test of Unknown::try_as_padded_any
PaddedOutOfBounds(self, length) == length > Len(self)

\* Unknown::try_as_padded_any
try_as_padded_any(self, length) ==
    IF PaddedOutOfBounds(self, length)
    THEN [status |-> "none", reads |-> {}]
    ELSE [status |-> "ok", padded |-> as_padded_any_unchecked(self, length),
          reads |-> as_padded_any_unchecked_reads(self, length)]

\* Unknown::as_padded_any: slice::split_at panics when length > len
as_padded_any(self, length) ==
    IF length > Len(self)
    THEN [status |-> "panic"]
    ELSE [status |-> "ok",
          padded |-> [payload |-> Slice(self, 0, length),
                      padding |-> Slice(self, length, Len(self))]]

(***************************************************************************)
(* link/ethernet/vlan.rs: extension states                                 *)
(***************************************************************************)
\* vlan::Unknown(())
VlanUnknown == [shape |-> "Unknown"]
\* vlan::Empty
VlanEmpty == [shape |-> "Empty"]
\* vlan::Any::None
AnyNone == [shape |-> "AnyNone"]
\* vlan::Any::Some(AnyHeader { first, data })
AnySome(first, data) == [shape |-> "AnySome", first |-> first, data |-> data]
\* Tag::raw
Tag_raw(value) == [shape |-> "Tag", raw |-> value]
\* Stacked { tag, remainder }
Stacked(tag, remainder) == [shape |-> "Stacked", tag |-> tag, remainder |-> remainder]

(***************************************************************************)
(* link/ethernet/vlan.rs: AnyHeader::parse                                 *)
(***************************************************************************)
\* VLAN_EXTENSIONS
VLAN_EXTENSIONS == {QINQ, DOT1Q}

\* payload.chunks(2): slices of two bytes, the last one of one byte when the
\* length is odd
chunks(payload) ==
    [j \in 1..((Len(payload) + 1) \div 2) |->
        Slice(payload, 2 * (j - 1), IF 2 * j <= Len(payload) THEN 2 * j ELSE Len(payload))]

\* .skip(1).step_by(2): the chunks 2, 4, 6, ... of the payload
EtypeChunks(payload) ==
    LET cs == chunks(payload)
    IN  [j \in 1..(Len(cs) \div 2) |-> cs[2 * j]]

\* .map(..): <[u8; 2]>::try_from(c) fails on the 1-byte chunk
EtypeResult(c) ==
    IF Len(c) = 2 THEN [ok |-> TRUE, etype |-> from_be_bytes(c)]
    ELSE [ok |-> FALSE, etype |-> 0]

\* the take_while of etypes_iter letting every whole chunk through
IsVlanResult_Mut(result) == result.ok

\* the predicate of the take_while that ends the definition of etypes_iter
IsVlanResult(result) == result.ok /\ result.etype \in VLAN_EXTENSIONS

\* the predicate of the take_while that counts the QinQ headers
IsQinqResult(result) == result.ok /\ result.etype = QINQ

\* etypes_iter before any call of next: pos is the next chunk of the
\* underlying iterator, flag is the flag of TakeWhile
EtypesIter == [pos |-> 1, flag |-> FALSE]

NoneItem == [some |-> FALSE, ok |-> FALSE, etype |-> 0]
SomeItem(result) == [some |-> TRUE, ok |-> result.ok, etype |-> result.etype]

\* etypes_iter.next(): TakeWhile::next takes an element of the underlying
\* iterator and, when the predicate rejects it, drops it and sets the flag
etypes_next(payload, it) ==
    LET cs == EtypeChunks(payload)
    IN  IF it.flag \/ it.pos > Len(cs)
        THEN [item |-> NoneItem, it |-> it]
        ELSE LET result == EtypeResult(cs[it.pos])
             IN  IF IsVlanResult(result)
                 THEN [item |-> SomeItem(result), it |-> [pos |-> it.pos + 1, flag |-> it.flag]]
                 ELSE [item |-> NoneItem, it |-> [pos |-> it.pos + 1, flag |-> TRUE]]

\* etypes_iter.by_ref().take_while(is QINQ).count(): the first element that is
\* not QINQ is taken from etypes_iter as well
RECURSIVE count_qinq(_, _, _)
count_qinq(payload, it, count) ==
    LET r == etypes_next(payload, it)
    IN  IF ~r.item.some THEN [count |-> count, it |-> r.it]
        ELSE IF IsQinqResult(r.item) THEN count_qinq(payload, r.it, count + 1)
        ELSE [count |-> count, it |-> r.it]

\* the match on the element after the QinQ headers: Some(Ok(DOT1Q)) or panic
TrailingIsDot1q(item) == item.some /\ item.ok /\ item.etype = DOT1Q

\* the final match without its DOT1Q pattern
LastField_Mut(item) ==
    IF item.some /\ item.ok /\ item.etype = QINQ THEN [status |-> "panic", value |-> 0]
    ELSE IF item.some /\ item.ok THEN [status |-> "ok", value |-> item.etype]
    ELSE [status |-> "panic", value |-> 0]

\* the match that yields last: a VLAN ethertype panics, Some(Ok(other)) is
\* the value, anything else panics
LastField(item) ==
    IF item.some /\ item.ok /\ item.etype \in {QINQ, DOT1Q} THEN [status |-> "panic", value |-> 0]
    ELSE IF item.some /\ item.ok THEN [status |-> "ok", value |-> item.etype]
    ELSE [status |-> "panic", value |-> 0]

PanicResult == [status |-> "panic"]

\* AnyHeader::parse
AnyHeader_parse(ethertype, payload) ==
    LET q == count_qinq(payload, EtypesIter, 0)
        qinq_headers == q.count
        t == etypes_next(payload, q.it)
        trailing_ok == qinq_headers = 0 \/ TrailingIsDot1q(t.item)
        it2 == IF qinq_headers # 0 THEN t.it ELSE q.it
        trailing_headers == IF qinq_headers # 0 THEN qinq_headers + 1 ELSE 0
        headers == trailing_headers + 1
        l == etypes_next(payload, it2)
        lastf == LastField(l.item)
        read_len == (headers * 4) - 2
    IN  IF ~trailing_ok THEN PanicResult
        ELSE IF lastf.status = "panic" THEN PanicResult
        \* &payload.0[..read_len] is a checked slice
        ELSE IF read_len > Len(payload) THEN PanicResult
        ELSE LET rest == consume(payload, read_len)
             IN  IF rest.status = "panic" THEN PanicResult
                 ELSE [status |-> "ok",
                       last_type |-> lastf.value,
                       any |-> AnySome(ethertype, Slice(payload, 0, read_len)),
                       payload |-> rest.payload,
                       reads |-> rest.reads]

\* the first arm of the match matching IPV4 as well, IPV4 written as 0x0800
IsVlanEthertype_Mut(ethertype) ==
    ethertype = DOT1Q \/ ethertype = QINQ \/ ethertype = Ipv4Wire

\* the first arm of the match of Any::parse
IsVlanEthertype(ethertype) == ethertype = DOT1Q \/ ethertype = QINQ

\* Any::parse
Any_parse(ethertype, payload) ==
    IF IsVlanEthertype(ethertype)
    THEN AnyHeader_parse(ethertype, payload)
    ELSE [status |-> "ok", last_type |-> ethertype, any |-> AnyNone, payload |-> payload]

\* the value and the reads of the unsafe block of Any::unwrap_stack
unwrap_stack_unchecked(data) ==
    [status |-> "ok",
     value |-> Stacked(Tag_raw(from_be_bytes(get_unchecked(data, 0, 2))),
                       AnySome(from_be_bytes(get_unchecked(data, 2, 4)),
                               get_unchecked(data, 4, Len(data)))),
     reads |-> {Read(data, 0, 2), Read(data, 2, 4), Read(data, 4, Len(data))}]

\* unwrap_stack testing for 2 bytes of data in place of 4
unwrap_stack_Mut(self) ==
    IF self.shape = "AnySome" /\ self.first = QINQ
    THEN IF Len(self.data) < 2 THEN PanicResult
         ELSE unwrap_stack_unchecked(self.data)
    ELSE PanicResult

\* Any::unwrap_stack
unwrap_stack(self) ==
    IF self.shape = "AnySome" /\ self.first = QINQ
    THEN IF Len(self.data) < 4 THEN PanicResult
         ELSE unwrap_stack_unchecked(self.data)
    ELSE PanicResult

\* unwrap_tag with a pattern that does not look at first
unwrap_tag_Mut(self) ==
    IF self.shape = "AnySome"
    THEN IF Len(self.data) # 2 THEN PanicResult
         ELSE [status |-> "ok", value |-> Tag_raw(from_be_bytes(self.data))]
    ELSE PanicResult

\* Any::unwrap_tag
unwrap_tag(self) ==
    IF self.shape = "AnySome" /\ self.first = DOT1Q
    THEN IF Len(self.data) # 2 THEN PanicResult
         ELSE [status |-> "ok", value |-> Tag_raw(from_be_bytes(self.data))]
    ELSE PanicResult

\* Any::unwrap_empty
unwrap_empty(self) ==
    IF self.shape = "AnySome" THEN PanicResult
    ELSE [status |-> "ok", value |-> VlanEmpty]

\* the resolver a caller picks: unwrap_stack, unwrap_tag or unwrap_empty
Resolve(which, self) ==
    CASE which = "unwrap_stack" -> unwrap_stack(self)
      [] which = "unwrap_tag" -> unwrap_tag(self)
      [] which = "unwrap_empty" -> unwrap_empty(self)

Resolvers == {"unwrap_stack", "unwrap_tag", "unwrap_empty"}

\* Stacked::map_remainder, out being what the closure returned for remainder
map_remainder(self, out) == Stacked(self.tag, out)

\* the remainder at the end of a chain of Stacked values
RECURSIVE InnermostRemainder(_)
InnermostRemainder(s) ==
    IF s.remainder.shape = "Stacked" THEN InnermostRemainder(s.remainder)
    ELSE s.remainder

\* s.map_remainder(|r| r.map_remainder(.. |a| a.unwrap_x() ..)): the resolver
\* applied to the Any at the end of the chain
RECURSIVE map_innermost(_, _)
map_innermost(s, which) ==
    LET r == IF s.remainder.shape = "Stacked"
             THEN map_innermost(s.remainder, which)
             ELSE Resolve(which, s.remainder)
    IN  IF r.status = "panic" THEN PanicResult
        ELSE [status |-> "ok", value |-> map_remainder(s, r.value)]

(***************************************************************************)
(* link/ethernet/vlan.rs: impl Size                                        *)
(***************************************************************************)
RECURSIVE size(_)

\* Size for Tag returning the 2 bytes of the u16
size_MutTag(v) ==
    CASE v.shape = "Empty" -> 0
      [] v.shape = "Tag" -> 2
      [] v.shape = "Stacked" -> size(v.tag) + size(v.remainder)
      [] v.shape = "AnySome" -> Len(v.data) + 2
      [] v.shape = "AnyNone" -> 0

\* Size for Any without the 2 bytes of the ethertype
size_MutAny(v) ==
    CASE v.shape = "Empty" -> 0
      [] v.shape = "Tag" -> 4
      [] v.shape = "Stacked" -> size(v.tag) + size(v.remainder)
      [] v.shape = "AnySome" -> Len(v.data)
      [] v.shape = "AnyNone" -> 0

\* Size::size of Empty, Tag, Stacked<V> and Any
size(v) ==
    CASE v.shape = "Empty" -> 0
      [] v.shape = "Tag" -> 4
      [] v.shape = "Stacked" -> size(v.tag) + size(v.remainder)
      [] v.shape = "AnySome" -> Len(v.data) + 2
      [] v.shape = "AnyNone" -> 0

(***************************************************************************)
(* link/ethernet/vlan.rs: Tag and Identifier                               *)
(***************************************************************************)
\* u16 arithmetic: &, |, << and >> on 16-bit values
RECURSIVE BitAnd(_, _)
BitAnd(a, b) ==
    IF a = 0 \/ b = 0 THEN 0
    ELSE ((a % 2) * (b % 2)) + (2 * BitAnd(a \div 2, b \div 2))

RECURSIVE BitOr(_, _)
BitOr(a, b) ==
    IF a = 0 THEN b
    ELSE IF b = 0 THEN a
    ELSE (IF (a % 2) + (b % 2) > 0 THEN 1 ELSE 0) + (2 * BitOr(a \div 2, b \div 2))

Shl(a, n) == (a * (2 ^ n)) % 65536
Shr(a, n) == a \div (2 ^ n)

PCP_MASK == 57344
PCP_SHIFT == 13
DEI_MASK == 4096
DEI_SHIFT == 12
ID_MASK == 4095

\* enum PriorityLevel, and `priority as u16`
PriorityLevels ==
    {"Background", "BestEffort", "ExcellentEffort", "CriticalApplications",
     "Video", "Voice", "InternetworkControl", "NetworkControl"}

PriorityAsU16(priority) ==
    CASE priority = "Background" -> 0
      [] priority = "BestEffort" -> 1
      [] priority = "ExcellentEffort" -> 2
      [] priority = "CriticalApplications" -> 3
      [] priority = "Video" -> 4
      [] priority = "Voice" -> 5
      [] priority = "InternetworkControl" -> 6
      [] priority = "NetworkControl" -> 7

\* `can_drop as u16`
BoolAsU16(b) == IF b THEN 1 ELSE 0

\* the range test of Identifier::new
IdentifierOutOfRange(v) == v > 4095

\* Identifier::new
Identifier_new(v) ==
    IF IdentifierOutOfRange(v) THEN [status |-> "none", id |-> 0]
    ELSE [status |-> "ok", id |-> v]

\* Tag::new with the two shifts exchanged
Tag_new_Mut(id, priority, can_drop) ==
    Tag_raw(BitOr(BitOr(id, Shl(BoolAsU16(can_drop), PCP_SHIFT)),
                  Shl(PriorityAsU16(priority), DEI_SHIFT)))

\* Tag::new
Tag_new(id, priority, can_drop) ==
    Tag_raw(BitOr(BitOr(id, Shl(BoolAsU16(can_drop), DEI_SHIFT)),
                  Shl(PriorityAsU16(priority), PCP_SHIFT)))

\* Tag::priority shifting by DEI_SHIFT
Tag_priority_Mut(tag) ==
    LET n == Shr(BitAnd(tag.raw, PCP_MASK), DEI_SHIFT)
    IN  CASE n = 0 -> "Background"
          [] n = 1 -> "BestEffort"
          [] n = 2 -> "ExcellentEffort"
          [] n = 3 -> "CriticalApplications"
          [] n = 4 -> "Video"
          [] n = 5 -> "Voice"
          [] n = 6 -> "InternetworkControl"
          [] n = 7 -> "NetworkControl"
          [] OTHER -> "unreachable"

\* Tag::priority
Tag_priority(tag) ==
    LET n == Shr(BitAnd(tag.raw, PCP_MASK), PCP_SHIFT)
    IN  CASE n = 0 -> "Background"
          [] n = 1 -> "BestEffort"
          [] n = 2 -> "ExcellentEffort"
          [] n = 3 -> "CriticalApplications"
          [] n = 4 -> "Video"
          [] n = 5 -> "Voice"
          [] n = 6 -> "InternetworkControl"
          [] n = 7 -> "NetworkControl"
          [] OTHER -> "unreachable"

\* Tag::drop_eligible
Tag_drop_eligible(tag) == BitAnd(tag.raw, DEI_MASK) # 0

\* Tag::identifier
Tag_identifier(tag) == BitAnd(tag.raw, ID_MASK)

\* Tag::get
Tag_get(tag) == tag.raw

(***************************************************************************)
(* link/ethernet/mod.rs: EthernetBase                                      *)
(***************************************************************************)
\* the length test written with <= in place of <
TooShort_Mut(bytes) == Len(bytes) <= HeaderLen

\* the length test of EthernetBase::parse
TooShort(bytes) == Len(bytes) < HeaderLen

\* consume_unknown taking the source address from bytes 0..6
consume_unknown_Mut(bytes) ==
    LET rest == consume(bytes, HeaderLen)
        reads == {Read(bytes, 0, 6), Read(bytes, 6, 12), Read(bytes, 12, 14)}
    IN  IF rest.status = "panic"
        THEN [status |-> "panic", reads |-> reads]
        ELSE [status |-> "ok",
              header |-> [kind |-> "EthernetBase",
                          destination |-> get_unchecked(bytes, 0, 6),
                          source |-> get_unchecked(bytes, 0, 6),
                          vlan |-> VlanUnknown,
                          type_or_length |-> from_be_bytes(get_unchecked(bytes, 12, 14)),
                          payload |-> rest.payload],
              reads |-> reads \cup rest.reads]

\* EthernetBase::consume_unknown, called with at least 14 bytes
consume_unknown(bytes) ==
    LET rest == consume(bytes, HeaderLen)
        reads == {Read(bytes, 0, 6), Read(bytes, 6, 12), Read(bytes, 12, 14)}
    IN  IF rest.status = "panic"
        THEN [status |-> "panic", reads |-> reads]
        ELSE [status |-> "ok",
              header |-> [kind |-> "EthernetBase",
                          destination |-> get_unchecked(bytes, 0, 6),
                          source |-> get_unchecked(bytes, 6, 12),
                          vlan |-> VlanUnknown,
                          type_or_length |-> from_be_bytes(get_unchecked(bytes, 12, 14)),
                          payload |-> rest.payload],
              reads |-> reads \cup rest.reads]

\* EthernetBase::parse
EthernetBase_parse(bytes) ==
    IF TooShort(bytes)
    THEN [status |-> "err", reads |-> {}]
    ELSE consume_unknown(bytes)

\* EthernetBase::map_vlan, out being what the closure returned for
\* (type_or_length, vlan, payload)
map_vlan(self, out) ==
    [kind |-> "EthernetBase",
     destination |-> self.destination,
     source |-> self.source,
     vlan |-> out.vlan,
     type_or_length |-> out.type_or_length,
     payload |-> out.payload]

\* EthernetBase::map_vlan_no_payload, out being what the closure returned
\* for (type_or_length, vlan)
map_vlan_no_payload(self, out) ==
    [kind |-> "EthernetBase",
     destination |-> self.destination,
     source |-> self.source,
     vlan |-> out.vlan,
     type_or_length |-> out.type_or_length,
     payload |-> self.payload]

\* the Ethernet that unwrap_ethernet and try_unrwap_ethernet build
Ethernet(destination, source, vlan, padded) ==
    [kind |-> "Ethernet",
     destination |-> destination,
     source |-> source,
     vlan |-> vlan,
     payload |-> padded.payload,
     padding |-> padded.padding]

\* EthernetBase::unwrap_ethernet
unwrap_ethernet(self) ==
    LET p == as_padded_any(self.payload, self.type_or_length)
    IN  IF p.status = "panic" THEN [status |-> "panic"]
        ELSE [status |-> "ok",
              header |-> Ethernet(self.destination, self.source, self.vlan, p.padded)]

\* try_unrwap_ethernet calling the panicking as_padded_any
try_unrwap_ethernet_Mut(self) == unwrap_ethernet(self)

\* EthernetBase::try_unrwap_ethernet
try_unrwap_ethernet(self) ==
    LET p == try_as_padded_any(self.payload, self.type_or_length)
    IN  IF p.status = "none" THEN [status |-> "err"]
        ELSE [status |-> "ok",
              header |-> Ethernet(self.destination, self.source, self.vlan, p.padded)]

\* EthernetBase::unwrap_ethernet2
unwrap_ethernet2(self) ==
    [kind |-> "Ethernet2",
     destination |-> self.destination,
     source |-> self.source,
     vlan |-> self.vlan,
     etype |-> self.type_or_length,
     payload |-> self.payload]

(***************************************************************************)
(* Inputs.                                                                 *)
(***************************************************************************)
DstBytes == <<208, 209, 210, 211, 212, 213>>
SrcBytes == <<16, 17, 18, 19, 20, 21>>

\* values of the 16-bit field of the input frames
TypeFields == {0, 1, 13, 14, 15, MIN_PAYLOAD_LEN, Ipv4Wire, DOT1Q}

\* the bytes after the header: every offset has its own value
TailBytes(n) == [i \in 1..n |-> 96 + i]

Frame(t, n) == DstBytes \o SrcBytes \o BeBytes(t) \o TailBytes(n)

Frames == {Frame(t, n) : t \in TypeFields, n \in 0..MaxTail}

\* buffers too short to hold a header
ShortBuffers == {Slice(Frame(t, 0), 0, k) : t \in TypeFields, k \in 0..(HeaderLen - 1)}

\* VLAN regions: 2-byte chunks, tags at the odd chunks, ethertypes at the even
TagWords == {5, 10, 11}
EtherWords == {Ipv4Wire, DOT1Q, QINQ}
ChunkChoices(i) == IF i % 2 = 1 THEN TagWords ELSE EtherWords

RECURSIVE WordSeqs(_)
WordSeqs(k) ==
    IF k = 0 THEN {<<>>}
    ELSE {Append(c, w) : c \in WordSeqs(k - 1), w \in ChunkChoices(k)}

WordBytes(ws) ==
    [i \in 1..(2 * Len(ws)) |->
        IF i % 2 = 1 THEN ws[(i + 1) \div 2] \div 256 ELSE ws[i \div 2] % 256]

WholeRegions == {WordBytes(ws) : ws \in UNION {WordSeqs(k) : k \in 0..MaxChunks}}

\* a region may also end in the middle of a chunk
Regions == WholeRegions \cup {Slice(r, 0, Len(r) - 1) : r \in WholeRegions \ {<<>>}}

\* longer regions, every tag 5: room for a run of QINQ, the DOT1Q after it
\* and a final ethertype
MaxDeepChunks == 8

RECURSIVE DeepSeqs(_)
DeepSeqs(k) ==
    IF k = 0 THEN {<<>>}
    ELSE {Append(c, w) : c \in DeepSeqs(k - 1),
                         w \in IF k % 2 = 1 THEN {5} ELSE EtherWords}

DeepRegions == {WordBytes(ws) : ws \in DeepSeqs(MaxDeepChunks)}

Buffers == Frames \cup ShortBuffers \cup Regions \cup DeepRegions

\* the ethertype arguments of Any::parse
EtherArgs == {MIN_PAYLOAD_LEN, Ipv4Wire, IPV4, DOT1Q, QINQ}

NoHeader == [kind |-> "None"]

Init ==
    /\ buffer \in Buffers
    /\ pc = "start"
    /\ hdr = NoHeader
    /\ last = [op |-> "none", status |-> "ok"]

(***************************************************************************)
(* Operations.                                                             *)
(***************************************************************************)
\* EthernetBase::parse(buffer)
Parse ==
    /\ pc = "start"
    /\ LET r == EthernetBase_parse(buffer)
       IN  /\ last' = [op |-> "parse", status |-> r.status, reads |-> ReadsOf(r)]
           /\ IF r.status = "ok"
              THEN pc' = "base" /\ hdr' = r.header
              ELSE pc' = "failed" /\ hdr' = NoHeader
    /\ UNCHANGED buffer

\* base.map_vlan(|t, _, p| vlan::Any::parse(EtherType(t), p))
MapVlan ==
    /\ pc = "base"
    /\ LET r == Any_parse(hdr.type_or_length, hdr.payload)
       IN  /\ last' = [op |-> "map_vlan", status |-> r.status, before |-> hdr]
           /\ IF r.status = "ok"
              THEN /\ pc' = "base"
                   /\ hdr' = map_vlan(hdr, [type_or_length |-> r.last_type,
                                            vlan |-> r.any,
                                            payload |-> r.payload])
              ELSE pc' = "failed" /\ hdr' = NoHeader
    /\ UNCHANGED buffer

\* base.map_vlan_no_payload(|t, _| (t, vlan::Empty))
MapVlanNoPayload ==
    /\ pc = "base"
    /\ last' = [op |-> "map_vlan_no_payload", status |-> "ok", before |-> hdr]
    /\ hdr' = map_vlan_no_payload(hdr, [type_or_length |-> hdr.type_or_length,
                                        vlan |-> VlanEmpty])
    /\ UNCHANGED <<buffer, pc>>

\* vlan::Unknown is no vlan::Extension: the unwrap family is defined for the
\* other VLAN states only
IsExtension(vlan) == vlan.shape # "Unknown"

\* base.unwrap_ethernet()
UnwrapEthernet ==
    /\ pc = "base"
    /\ IsExtension(hdr.vlan)
    /\ LET r == unwrap_ethernet(hdr)
       IN  /\ last' = [op |-> "unwrap_ethernet", status |-> r.status, before |-> hdr]
           /\ IF r.status = "ok"
              THEN pc' = "ethernet" /\ hdr' = r.header
              ELSE pc' = "failed" /\ hdr' = NoHeader
    /\ UNCHANGED buffer

\* base.try_unrwap_ethernet()
TryUnwrapEthernet ==
    /\ pc = "base"
    /\ IsExtension(hdr.vlan)
    /\ LET r == try_unrwap_ethernet(hdr)
       IN  /\ last' = [op |-> "try_unrwap_ethernet", status |-> r.status, before |-> hdr]
           /\ IF r.status = "ok"
              THEN pc' = "ethernet" /\ hdr' = r.header
              ELSE pc' = "failed" /\ hdr' = NoHeader
    /\ UNCHANGED buffer

\* base.unwrap_ethernet2()
UnwrapEthernet2 ==
    /\ pc = "base"
    /\ IsExtension(hdr.vlan)
    /\ last' = [op |-> "unwrap_ethernet2", status |-> "ok", before |-> hdr]
    /\ pc' = "ethernet2"
    /\ hdr' = unwrap_ethernet2(hdr)
    /\ UNCHANGED buffer

\* Unknown(buffer).consume(n)
Consume(n) ==
    /\ pc = "start"
    /\ LET r == consume(buffer, n)
       IN  last' = [op |-> "consume", n |-> n, status |-> r.status, reads |-> ReadsOf(r),
                    out |-> IF r.status = "ok" THEN r.payload ELSE <<>>]
    /\ pc' = "returned"
    /\ UNCHANGED <<buffer, hdr>>

\* Unknown(buffer).try_as_padded_any(n)
TryAsPaddedAny(n) ==
    /\ pc = "start"
    /\ LET r == try_as_padded_any(buffer, n)
       IN  last' = [op |-> "try_as_padded_any", n |-> n, status |-> r.status,
                    reads |-> ReadsOf(r),
                    payload |-> IF r.status = "ok" THEN r.padded.payload ELSE <<>>,
                    padding |-> IF r.status = "ok" THEN r.padded.padding ELSE <<>>]
    /\ pc' = "returned"
    /\ UNCHANGED <<buffer, hdr>>

\* Any::parse(EtherType(et), buffer)
AnyParse(et) ==
    /\ pc = "start"
    /\ LET r == Any_parse(et, buffer)
       IN  last' = [op |-> "any_parse", first |-> et, status |-> r.status,
                    reads |-> ReadsOf(r),
                    last_type |-> IF r.status = "ok" THEN r.last_type ELSE 0,
                    any |-> IF r.status = "ok" THEN r.any ELSE AnyNone,
                    payload |-> IF r.status = "ok" THEN r.payload ELSE <<>>]
    /\ pc' = "returned"
    /\ UNCHANGED <<buffer, hdr>>

\* the Any values over the buffer: Any::None, and Any::Some of an AnyHeader
\* whose data is the buffer
AnyValues == {AnyNone} \cup {AnySome(first, buffer) : first \in EtherArgs}

\* a.unwrap_stack(), a.unwrap_tag() or a.unwrap_empty()
Unwrap(which, a) ==
    /\ pc = "start"
    /\ LET r == Resolve(which, a)
       IN  /\ last' = [op |-> which, status |-> r.status, any |-> a, reads |-> ReadsOf(r),
                       value |-> IF r.status = "ok" THEN r.value ELSE VlanUnknown]
           /\ pc' = IF r.status = "ok" THEN "narrowed" ELSE "failed"
    /\ UNCHANGED <<buffer, hdr>>

\* stacked.map_remainder(|a| a.unwrap_x()), at the end of the chain
MapRemainder(which) ==
    /\ pc = "narrowed"
    /\ last.value.shape = "Stacked"
    /\ InnermostRemainder(last.value).shape \in {"AnySome", "AnyNone"}
    /\ LET r == map_innermost(last.value, which)
       IN  /\ last' = [op |-> "map_remainder", status |-> r.status, any |-> last.any,
                       value |-> IF r.status = "ok" THEN r.value ELSE VlanUnknown]
           /\ pc' = IF r.status = "ok" THEN "narrowed" ELSE "failed"
    /\ UNCHANGED <<buffer, hdr>>

\* value.size() of a narrowed extension
SizeOf ==
    /\ pc = "narrowed"
    /\ last' = [op |-> "size", status |-> "ok", any |-> last.any, of |-> last.value,
                size |-> size(last.value)]
    /\ pc' = "returned"
    /\ UNCHANGED <<buffer, hdr>>

\* a.size() of an Any
SizeOfAny(a) ==
    /\ pc = "start"
    /\ last' = [op |-> "size", status |-> "ok", any |-> a, of |-> a, size |-> size(a)]
    /\ pc' = "returned"
    /\ UNCHANGED <<buffer, hdr>>

\* Identifier::new(v) and, for an identifier, Tag::new(id, priority, can_drop)
TagNew(v, priority, can_drop) ==
    /\ pc = "start"
    /\ LET i == Identifier_new(v)
       IN  IF i.status = "none"
           THEN /\ pc' = "failed"
                /\ last' = [op |-> "identifier_new", status |-> "none", v |-> v]
           ELSE /\ pc' = "tag"
                /\ last' = [op |-> "tag_new", status |-> "ok", v |-> v,
                            priority |-> priority, can_drop |-> can_drop,
                            tag |-> Tag_new(i.id, priority, can_drop)]
    /\ UNCHANGED <<buffer, hdr>>

\* tag.priority(), tag.drop_eligible(), tag.identifier().get() and tag.get()
\* of the tag that Tag::new returned
TagDecode ==
    /\ pc = "tag"
    /\ last.op = "tag_new"
    /\ last' = [op |-> "tag_decode", status |-> "ok", v |-> last.v,
                priority |-> last.priority, can_drop |-> last.can_drop,
                tag |-> last.tag,
                out_priority |-> Tag_priority(last.tag),
                out_drop_eligible |-> Tag_drop_eligible(last.tag),
                out_identifier |-> Tag_identifier(last.tag),
                out_raw |-> Tag_get(last.tag)]
    /\ pc' = "returned"
    /\ UNCHANGED <<buffer, hdr>>

Next ==
    \/ Parse
    \/ MapVlan
    \/ MapVlanNoPayload
    \/ UnwrapEthernet
    \/ TryUnwrapEthernet
    \/ UnwrapEthernet2
    \/ \E et \in EtherArgs : AnyParse(et)
    \/ \E n \in 0..(Len(buffer) + 1) : Consume(n)
    \/ \E n \in 0..(Len(buffer) + 1) : TryAsPaddedAny(n)
    \/ \E which \in Resolvers, a \in AnyValues : Unwrap(which, a)
    \/ \E which \in Resolvers : MapRemainder(which)
    \/ SizeOf
    \/ \E a \in AnyValues : SizeOfAny(a)

Spec == Init /\ [][Next]_vars

\* the values given to Identifier::new: every identifier and the two values
\* after the largest
IdentifierArgs == 0..(ID_MASK + 2)

\* the Tag codec takes no buffer
InitTag ==
    /\ buffer = <<>>
    /\ pc = "start"
    /\ hdr = NoHeader
    /\ last = [op |-> "none", status |-> "ok"]

NextTag ==
    \/ /\ pc = "start"
       /\ \E v \in IdentifierArgs, priority \in PriorityLevels, can_drop \in BOOLEAN :
             TagNew(v, priority, can_drop)
    \/ TagDecode

SpecTag == InitTag /\ [][NextTag]_vars

(***************************************************************************)
(* Properties.                                                             *)
(***************************************************************************)

\* C1: EthernetBase::parse returns Err, without a panic, for every buffer
\* shorter than 14 bytes and Ok for every buffer of 14 bytes or more.
C1_ParseErrIffShort ==
    last.op = "parse" =>
        IF Len(buffer) < 14 THEN last.status = "err" /\ pc = "failed"
        ELSE last.status = "ok" /\ pc = "base"

\* parse has accepted a buffer of exactly 14 bytes
C1_Witness == last.op = "parse" /\ Len(buffer) = 14 /\ last.status = "ok"

\* C2: for every buffer of length L >= 14 the payload of the header parse
\* returns is the L - 14 bytes from offset 14 on, and the VLAN state is Unknown.
C2_PayloadIsRemainder ==
    (last.op = "parse" /\ Len(buffer) >= 14) =>
        /\ last.status = "ok"
        /\ hdr.payload = Slice(buffer, 14, Len(buffer))
        /\ hdr.vlan = VlanUnknown

\* C3: consume(n) on a payload of length L returns the L - n bytes from
\* offset n on when n <= L, and panics when n > L.
C3_ConsumeDropsPrefix ==
    last.op = "consume" =>
        IF last.n <= Len(buffer)
        THEN last.status = "ok" /\ last.out = Slice(buffer, last.n, Len(buffer))
        ELSE last.status = "panic"

\* C4: Any::parse(DOT1Q, payload), the payload being a 2-byte tag and then a
\* 2-byte value that is neither DOT1Q nor QINQ, returns that value with an Any
\* that holds the 2 tag bytes and that unwrap_tag turns into the tag.
C4_SingleTag ==
    (/\ last.op = "any_parse"
     /\ last.first = 33024
     /\ Len(buffer) >= 4
     /\ from_be_bytes(Slice(buffer, 2, 4)) \notin {33024, 34984}) =>
        /\ last.status = "ok"
        /\ last.last_type = from_be_bytes(Slice(buffer, 2, 4))
        /\ last.any = AnySome(33024, Slice(buffer, 0, 2))
        /\ unwrap_tag(last.any) =
              [status |-> "ok", value |-> Tag_raw(from_be_bytes(Slice(buffer, 0, 2)))]

\* C5: Any::parse(QINQ, 00 0A 81 00 00 0B 08 00) returns the final type 0x0800
\* and an Any that unwrap_stack and then unwrap_tag resolve to
\* Stacked{tag: identifier 10, remainder: Tag with identifier 11}.
C5_QinQ ==
    (/\ last.op = "any_parse"
     /\ last.first = 34984
     /\ buffer = <<0, 10, 129, 0, 0, 11, 8, 0>>) =>
        /\ last.status = "ok"
        /\ last.last_type = 2048
        /\ LET s == unwrap_stack(last.any)
           IN  /\ s.status = "ok"
               /\ Tag_identifier(s.value.tag) = 10
               /\ LET t == unwrap_tag(s.value.remainder)
                  IN  t.status = "ok" /\ Tag_identifier(t.value) = 11

\* C6: Any::parse with a VLAN ethertype returns no value for a malformed tag
\* chain: a run of QINQ ethertypes that DOT1Q does not follow, DOT1Q or QINQ
\* in the final ethertype/length position, or a payload that ends before the
\* final field.
C6_NoValueForMalformedChain ==
    LET present(j) == Len(buffer) >= 4 * j
        entry(j) == from_be_bytes(Slice(buffer, (4 * j) - 2, 4 * j))
        isq(j) == present(j) /\ entry(j) = 34984
        run == Cardinality({j \in 1..(Len(buffer) \div 4) : \A i \in 1..j : isq(i)})
        final == IF run = 0 THEN 1 ELSE run + 2
        malformed ==
            \/ run >= 1 /\ ~(present(run + 1) /\ entry(run + 1) = 33024)
            \/ ~present(final)
            \/ entry(final) \in {33024, 34984}
    IN  (last.op = "any_parse" /\ last.first \in {33024, 34984} /\ malformed) =>
            last.status = "panic"

\* Any::parse(QINQ, ..) has panicked on a chain of two QINQ ethertypes with
\* no DOT1Q after them
C6_Witness ==
    /\ last.op = "any_parse"
    /\ last.first = 34984
    /\ Len(buffer) = 12
    /\ from_be_bytes(Slice(buffer, 2, 4)) = 34984
    /\ from_be_bytes(Slice(buffer, 6, 8)) = 34984
    /\ from_be_bytes(Slice(buffer, 10, 12)) = 2048
    /\ last.status = "panic"

\* C7: for an ethertype other than DOT1Q and QINQ, Any::parse returns the
\* same ethertype value, Any::None and the payload unchanged, without a panic.
C7_NonVlanPassthrough ==
    (last.op = "any_parse" /\ last.first \notin {33024, 34984}) =>
        /\ last.status = "ok"
        /\ last.last_type = last.first
        /\ last.any = AnyNone
        /\ last.payload = buffer

\* Any::parse(0x0800, ..) has returned on a payload of 4 bytes or more
C7_Witness ==
    /\ last.op = "any_parse"
    /\ last.first = 2048
    /\ Len(buffer) >= 4
    /\ last.status = "ok"

\* C8: for a buffer of length L >= 14 whose 16-bit field n is at most L - 14,
\* parse, a VLAN state set without touching the payload and unwrap_ethernet
\* give the n bytes after the header as payload and the other L - 14 - n
\* bytes as padding.
C8_LengthDisambiguation ==
    LET n == from_be_bytes(Slice(buffer, 12, 14))
    IN  (last.op = "unwrap_ethernet" /\ last.before.vlan = VlanEmpty
            /\ n <= Len(buffer) - 14) =>
            /\ last.status = "ok"
            /\ hdr.payload = Slice(buffer, 14, 14 + n)
            /\ hdr.padding = Slice(buffer, 14 + n, Len(buffer))

\* C9: try_unrwap_ethernet returns InvalidLengthError, without a panic, when
\* type_or_length exceeds the length of the header's payload, and otherwise an
\* Ethernet with the same destination, source and VLAN state; unwrap_ethernet
\* panics on such an over-long length.
C9_CheckedLength ==
    /\ last.op = "try_unrwap_ethernet" =>
          IF last.before.type_or_length > Len(last.before.payload)
          THEN last.status = "err"
          ELSE /\ last.status = "ok"
               /\ hdr.kind = "Ethernet"
               /\ hdr.destination = last.before.destination
               /\ hdr.source = last.before.source
               /\ hdr.vlan = last.before.vlan
    /\ (last.op = "unwrap_ethernet"
            /\ last.before.type_or_length > Len(last.before.payload)) =>
          last.status = "panic"

\* try_unrwap_ethernet has refused a length beyond the payload
C9_Witness ==
    /\ last.op = "try_unrwap_ethernet"
    /\ last.before.type_or_length > Len(last.before.payload)
    /\ last.status = "err"

\* C10: try_as_padded_any(length) on a payload of length L returns None when
\* length > L, and otherwise the first length bytes as payload and the other
\* L - length bytes as padding, so that payload and padding together are the
\* original bytes.
C10_PaddedSplit ==
    last.op = "try_as_padded_any" =>
        IF last.n > Len(buffer)
        THEN last.status = "none"
        ELSE /\ last.status = "ok"
             /\ last.payload = Slice(buffer, 0, last.n)
             /\ last.padding = Slice(buffer, last.n, Len(buffer))
             /\ last.payload \o last.padding = buffer

\* try_as_padded_any has split a payload into two non-empty parts
C10_Witness ==
    /\ last.op = "try_as_padded_any"
    /\ last.status = "ok"
    /\ last.n > 0
    /\ last.n < Len(buffer)

\* C11: for every identifier 0..0xFFF, priority level and drop-eligible flag,
\* the tag that Tag::new builds gives back the identifier, the priority and
\* the flag.
C11_TagRoundTrip ==
    last.op = "tag_decode" =>
        /\ last.out_identifier = last.v
        /\ last.out_priority = last.priority
        /\ last.out_drop_eligible = last.can_drop

\* a tag with all three fields non-zero has been built and decoded
C11_Witness ==
    /\ last.op = "tag_decode"
    /\ last.v = 4095
    /\ last.priority = "NetworkControl"
    /\ last.can_drop

\* C12: the 16-bit value of Tag::new(identifier, priority, drop_eligible) is
\* priority * 2^13 + drop_eligible * 2^12 + identifier: priority in bits
\* 15..13, drop-eligible in bit 12, the identifier in bits 11..0.
C12_TagBitLayout ==
    last.op = "tag_new" =>
        LET p == CHOOSE n \in 0..7 :
                    <<"Background", "BestEffort", "ExcellentEffort",
                      "CriticalApplications", "Video", "Voice",
                      "InternetworkControl", "NetworkControl">>[n + 1] = last.priority
            d == IF last.can_drop THEN 1 ELSE 0
        IN  /\ last.tag.raw = (p * 8192) + (d * 4096) + last.v
            /\ last.tag.raw \div 8192 = p
            /\ (last.tag.raw \div 4096) % 2 = d
            /\ last.tag.raw % 4096 = last.v

\* Tag::new has built the tag of identifier 5, priority Voice, drop-eligible
C12_Witness ==
    /\ last.op = "tag_new"
    /\ last.v = 5
    /\ last.priority = "Voice"
    /\ last.can_drop
    /\ last.tag.raw = 45061

\* C13: unwrap_stack returns only for Any::Some with first ethertype QINQ and
\* at least 4 data bytes, unwrap_tag only for Any::Some with first ethertype
\* DOT1Q and exactly 2 data bytes, unwrap_empty only for Any::None; every
\* other call panics, so at most one of the three returns for an Any value.
C13_ResolversFatalOnWrongShape ==
    LET a == last.any
        some == a.shape = "AnySome"
    IN  /\ last.op = "unwrap_stack" =>
              IF some /\ a.first = 34984 /\ Len(a.data) >= 4
              THEN last.status = "ok" ELSE last.status = "panic"
        /\ last.op = "unwrap_tag" =>
              IF some /\ a.first = 33024 /\ Len(a.data) = 2
              THEN last.status = "ok" ELSE last.status = "panic"
        /\ last.op = "unwrap_empty" =>
              IF a.shape = "AnyNone"
              THEN last.status = "ok" ELSE last.status = "panic"
        /\ last.op \in {"unwrap_stack", "unwrap_tag", "unwrap_empty"} =>
              Cardinality({w \in {"unwrap_stack", "unwrap_tag", "unwrap_empty"} :
                              Resolve(w, a).status = "ok"}) <= 1

\* unwrap_tag has panicked on a value that unwrap_stack resolves
C13_Witness ==
    /\ last.op = "unwrap_tag"
    /\ last.any.shape = "AnySome"
    /\ last.any.first = 34984
    /\ Len(last.any.data) >= 4
    /\ last.status = "panic"

\* C17: Empty.size() is 0, Tag.size() is 4, and s.size() is
\* 4 + s.remainder.size() for every Stacked value s.
C17_SizeLaw ==
    last.op = "size" =>
        /\ last.of.shape = "Empty" => last.size = 0
        /\ last.of.shape = "Tag" => last.size = 4
        /\ last.of.shape = "Stacked" => last.size = 4 + size(last.of.remainder)

\* size() has been taken of a Stacked whose remainder is a Tag
C17_Witness ==
    /\ last.op = "size"
    /\ last.of.shape = "Stacked"
    /\ last.of.remainder.shape = "Tag"
    /\ last.size = 8

\* C20: when a resolver returns, its result has the size() of the Any it was
\* called on: unwrap_stack gives 4 + remainder.size() = data length + 2,
\* unwrap_tag gives 4, unwrap_empty gives 0.
C20_NarrowingKeepsSize ==
    (last.op \in {"unwrap_stack", "unwrap_tag", "unwrap_empty"} /\ last.status = "ok") =>
        /\ size(last.value) = size(last.any)
        /\ last.op = "unwrap_stack" =>
              /\ size(last.value) = 4 + size(last.value.remainder)
              /\ size(last.value) = Len(last.any.data) + 2
        /\ last.op = "unwrap_tag" => size(last.value) = 4 /\ size(last.any) = 4
        /\ last.op = "unwrap_empty" => size(last.value) = 0 /\ size(last.any) = 0

\* unwrap_stack has returned a Stacked with data left in its remainder
C20_Witness ==
    /\ last.op = "unwrap_stack"
    /\ last.status = "ok"
    /\ Len(last.any.data) = 8
    /\ Len(last.value.remainder.data) = 4

\* C14: EthernetBase::parse, Unknown::consume, Unknown::try_as_padded_any,
\* Any::parse, Any::unwrap_stack and Any::unwrap_tag read only inside the
\* slice they were given: every get_unchecked(lo..hi) they make has
\* lo <= hi <= len.
C14_NoOutOfBoundsRead ==
    last.op \in {"parse", "consume", "try_as_padded_any", "any_parse",
                 "unwrap_stack", "unwrap_tag"} =>
        \A r \in last.reads : r.lo >= 0 /\ r.lo <= r.hi /\ r.hi <= r.len

\* unwrap_stack has made its three unchecked reads on exactly 4 bytes of data
C14_Witness ==
    /\ last.op = "unwrap_stack"
    /\ last.status = "ok"
    /\ Len(last.any.data) = 4
    /\ last.reads = {[lo |-> 0, hi |-> 2, len |-> 4],
                     [lo |-> 2, hi |-> 4, len |-> 4],
                     [lo |-> 4, hi |-> 4, len |-> 4]}

\* C15: for every buffer of 14 bytes or more, the header EthernetBase::parse
\* returns has bytes 0..6 as destination, bytes 6..12 as source and
\* byte[12] * 256 + byte[13] as type_or_length.
C15_HeaderFields ==
    (last.op = "parse" /\ Len(buffer) >= 14) =>
        /\ last.status = "ok"
        /\ hdr.destination = [i \in 1..6 |-> buffer[i]]
        /\ hdr.source = [i \in 1..6 |-> buffer[6 + i]]
        /\ hdr.type_or_length = (buffer[13] * 256) + buffer[14]

\* parse has returned a header whose 16-bit field is 0x8100: its two bytes
\* differ, and so do the two addresses
C15_Witness ==
    /\ last.op = "parse"
    /\ last.status = "ok"
    /\ buffer[13] = 129
    /\ buffer[14] = 0
    /\ hdr.destination # hdr.source

\* C16: the reserved EtherType values are IPV4 = 0x0800, DOT1Q = 0x8100 and
\* QINQ = 0x88A8, pairwise distinct; a frame whose 16-bit field is 08 00
\* carries the constant IPV4.
C16_ReservedEtherTypes ==
    /\ IPV4 = from_be_bytes(<<8, 0>>)
    /\ DOT1Q = from_be_bytes(<<129, 0>>)
    /\ QINQ = from_be_bytes(<<136, 168>>)
    /\ IPV4 # DOT1Q /\ IPV4 # QINQ /\ DOT1Q # QINQ
    /\ (last.op = "parse" /\ last.status = "ok" /\ buffer[13] = 8 /\ buffer[14] = 0) =>
            hdr.type_or_length = IPV4

C18_MapAfterDisambiguation ==
    pc \in {"ethernet", "ethernet2"} =>
        ENABLED (/\ Next
                 /\ hdr'.kind = hdr.kind
                 /\ hdr'.destination = hdr.destination
                 /\ hdr'.source = hdr.source
                 /\ hdr'.vlan # hdr.vlan)

====
